---- MODULE Spec2Model ----
(***************************************************************************)
(* Timeline planning of AutoMontage (src/app.py).                          *)
(*                                                                         *)
(* generate_montage walks the clips in order, computes for each one a      *)
(* local trim window [local_start, local_end] and a start time on the      *)
(* final timeline (time_offset), and finally composites the placed         *)
(* subclips and stretches the result to the audio duration.  main is the   *)
(* Streamlit script that validates the form and calls generate_montage.    *)
(*                                                                         *)
(* Times are Python floats (IEEE 754 binary64): main parses them with      *)
(* float(), and every + and - of the planner rounds to nearest, ties to    *)
(* even.  The model keeps that arithmetic bit for bit.  A double that is 0 *)
(* or has 2^-4 <= |v| < 2^4, and every sum and difference of such doubles, *)
(* is a whole multiple of 2^-56; the model holds the double v as the       *)
(* integer n = v * 2^56, written n = hi * 2^30 + lo with 0 <= lo < 2^30    *)
(* (hi carries the sign), i.e. as the pair <<hi, lo>>.                     *)
(*                                                                         *)
(* Media decoding and encoding are outside the model: a loaded clip is its *)
(* duration, a subclip is its window and its start time.                   *)
(***************************************************************************)
EXTENDS Integers, Sequences, FiniteSets

\* ------------------------------------------------------------------ bounds
\* Most clips in one run.
MaxClips == 3

\* ------------------------------------------------------------------ floats
Base == 2^30
\* A double has 53 significant bits: 30 in lo and 23 in hi.
Mant == 2^23

\* float(text) for the texts the inputs are drawn from, and for the int
\* literals 0 and 1 where the planner mixes them with floats.
Zero == <<0, 0>>                          \* 0
One == <<67108864, 0>>                    \* 1
Float_m1 == <<-67108864, 0>>              \* "-1"   -0x1.0p+0
Float_0_4 == <<26843545, 644245096>>      \* "0.4"   0x1.999999999999ap-2
Float_0_5 == <<33554432, 0>>              \* "0.5"   0x1.0p-1
Float_1_2 == <<80530636, 858993456>>     \* "1.2"   0x1.3333333333333p+0
Float_1_5 == <<100663296, 0>>             \* "1.5"   0x1.8p+0
Float_3 == <<201326592, 0>>               \* "3"     0x1.8p+1
Float_4 == <<268435456, 0>>               \* "4"     0x1.0p+2

\* -a (exact).
Neg(a) == IF a[2] = 0 THEN <<-a[1], 0>> ELSE <<-a[1] - 1, Base - a[2]>>
\* a < b, a <= b
Lt(a, b) == a[1] < b[1] \/ (a[1] = b[1] /\ a[2] < b[2])
Le(a, b) == a = b \/ Lt(a, b)

\* The exact sum of two doubles, before rounding.
ExactAdd(a, b) ==
  LET l == a[2] + b[2]
  IN  IF l >= Base THEN <<a[1] + b[1] + 1, l - Base>> ELSE <<a[1] + b[1], l>>

\* How many bits n >= 0 has beyond 53, given its hi (below 2^31).
Shift(hi) ==
  IF hi < Mant THEN 0
  ELSE IF hi < 2 * Mant THEN 1
  ELSE IF hi < 4 * Mant THEN 2
  ELSE IF hi < 8 * Mant THEN 3
  ELSE IF hi < 16 * Mant THEN 4
  ELSE IF hi < 32 * Mant THEN 5
  ELSE IF hi < 64 * Mant THEN 6
  ELSE IF hi < 128 * Mant THEN 7
  ELSE 8

\* n >= 0 rounded to 53 significant bits, to nearest, ties to even.
RoundMag(n) ==
  LET s == Shift(n[1])
  IN  IF s = 0 THEN n
      ELSE LET q == n[2] \div 2^s
               r == n[2] % 2^s
               half == 2^(s - 1)
               up == IF r > half \/ (r = half /\ q % 2 = 1) THEN 1 ELSE 0
               lo == (q + up) * 2^s
           IN  IF lo >= Base THEN <<n[1] + 1, lo - Base>> ELSE <<n[1], lo>>

Round(n) == IF n[1] < 0 THEN Neg(RoundMag(Neg(n))) ELSE RoundMag(n)

\* float.__add__, float.__sub__
FAdd(a, b) == Round(ExactAdd(a, b))
FSub(a, b) == Round(ExactAdd(a, Neg(b)))

\* max(a, b), min(a, b) of Python: the first argument unless the second is
\* strictly larger (smaller).
Max(a, b) == IF Lt(a, b) THEN b ELSE a
Min(a, b) == IF Lt(b, a) THEN b ELSE a

\* ------------------------------------------------------------------ inputs
\* kill_time of a clip: main parses any float, negative ones included.
KillTimes == {Float_m1, Zero, Float_1_2}
\* beat_drops entries.
BeatTimes == {Zero, Float_0_4, Float_1_5}
\* clip.duration of a loaded video file (positive).
ClipDurations == {Float_0_5, Float_4}
\* audio_clip.duration of the song.
AudioDurations == {One, Float_3}

\* ----------------------------------------------------------------- helpers
\* Python's None, and a defined value, for previous_kill_final_time etc.
None == <<>>
Some(v) == <<v>>
Val(o) == o[1]

\* All sequences over S of length lo..hi.
SeqsOf(S, lo, hi) == UNION {[1..n -> S] : n \in lo..hi}

\* ------------------------------------------------- generate_montage, pure
\* local_end = kill_time + 1
LocalEnd(kill_time) == FAdd(kill_time, One)

\* final_start_of_this_clip = previous_kill_final_time + 1
FinalStartOfThisClip(previous) == FAdd(previous, One)

\* local_start: 0 for the first clip, else solved from the previous kill.
\* previous is only read when i > 0.
LocalStart(i, kill_time, beat_time, previous) ==
  IF i = 0
  THEN Zero
  ELSE FSub(kill_time, FSub(beat_time, FinalStartOfThisClip(previous)))

Clamp_NoUpper(x, duration) == Max(Zero, x)
\* x = max(0, x); x = min(x, clip.duration)
Clamp(x, duration) == Min(Max(Zero, x), duration)

TimeOffset_NoStart(kill_time, local_start, beat_time) ==
  FSub(beat_time, kill_time)
\* kill_time_in_subclip = kill_time - local_start;
\* time_offset = beat_time - kill_time_in_subclip
TimeOffset(kill_time, local_start, beat_time) ==
  FSub(beat_time, FSub(kill_time, local_start))

PreviousAfterSkip_Advance(previous, beat_time) == Some(beat_time)
\* `continue` on a degenerate window: previous_kill_final_time is not
\* assigned on this path.
PreviousAfterSkip(previous, beat_time) == previous

\* previous_kill_final_time = beat_time, after a clip is placed.
PreviousAfterPlace(previous, beat_time) == Some(beat_time)

\* End of a placed subclip on the final timeline: the subclip's duration is
\* local_end - local_start, its end is start + duration.
ClipEnd(c) == FAdd(c.time_offset, FSub(c.local_end, c.local_start))

\* CompositeVideoClip(placed_clips).duration: the latest end of its clips.
CompositeDuration(placed) ==
  LET ends == {ClipEnd(placed[k]) : k \in 1..Len(placed)}
  IN  CHOOSE m \in ends : \A e \in ends : Le(e, m)

FinalDuration_AudioOnly(placed, audio_duration) == audio_duration
\* final_duration = max(final_video.duration, audio_clip.duration)
FinalDuration(placed, audio_duration) ==
  Max(CompositeDuration(placed), audio_duration)

\* ------------------------------------------------------------------- state
VARIABLES
  entry,          \* "main": the Streamlit script; "call": generate_montage called directly
  pc,             \* "main", "loop", "done", "raised", "returned"
  ui,             \* what main showed: "none", "warning", "error", "success"
  song_path,      \* "none" while no song file is at hand, else "file"
  clips_uploaded, \* main: number of uploaded clips
  kill_times,     \* main: parsed kill times
  clips_info,     \* generate_montage: kill_time of each clip, in order
  beat_drops,     \* parsed beat drops / the beat_drops argument
  i,              \* loop index, 0-based as in the source
  durations,      \* clip.duration of the clips loaded so far, in order
  previous_kill_final_time,
  placed_clips,   \* sequence of [index, local_start, local_end, time_offset]
  audio_duration, \* audio_clip.duration, read when compositing
  final_duration,
  exc             \* exception raised by generate_montage, or "none"

vars == <<entry, pc, ui, song_path, clips_uploaded, kill_times, clips_info,
          beat_drops, i, durations, previous_kill_final_time, placed_clips,
          audio_duration, final_duration, exc>>

planVars == <<i, durations, previous_kill_final_time, placed_clips,
              audio_duration, final_duration, exc>>

\* State of generate_montage's locals before the loop.
PlanInit ==
  /\ i = 0
  /\ durations = <<>>
  /\ previous_kill_final_time = None
  /\ placed_clips = <<>>
  /\ audio_duration = None
  /\ final_duration = None
  /\ exc = "none"

\* Either the script starts (its inputs are read while it runs), or
\* generate_montage is called with arbitrary lists.
Init ==
  /\ PlanInit
  /\ ui = "none"
  /\ clips_uploaded = 0
  /\ \/ /\ entry = "main"
        /\ pc = "main"
        /\ song_path = "none"
        /\ kill_times = <<>>
        /\ clips_info = <<>>
        /\ beat_drops = <<>>
     \/ /\ entry = "call"
        /\ pc = "loop"
        /\ song_path = "file"
        /\ kill_times = <<>>
        /\ clips_info \in SeqsOf(KillTimes, 0, MaxClips)
        /\ beat_drops \in SeqsOf(BeatTimes, 0, MaxClips)

\* -------------------------------------------------------------------- main
\* "Please upload a song first."
MainNoSong ==
  /\ pc = "main"
  /\ pc' = "returned"
  /\ ui' = "warning"
  /\ UNCHANGED <<entry, song_path, clips_uploaded, kill_times, clips_info,
                 beat_drops>>
  /\ UNCHANGED planVars

\* "Please upload at least one clip."
MainNoClips ==
  /\ pc = "main"
  /\ pc' = "returned"
  /\ ui' = "warning"
  /\ song_path' = "file"
  /\ clips_uploaded' = 0
  /\ UNCHANGED <<entry, kill_times, clips_info, beat_drops>>
  /\ UNCHANGED planVars

\* The two text inputs, as main reads them: a comma-separated text is the
\* sequence of its pieces (x.split(",") has at least one piece, "" for the
\* empty text); a piece is <<v>> when float(piece.strip()) is the double v,
\* and BadToken when float raises ValueError ("x", "").
BadToken == <<>>
Tokens(S) == {<<v>> : v \in S} \cup {BadToken}
Texts(S) == SeqsOf(Tokens(S), 1, MaxClips)

\* [float(x.strip()) for x in text.split(",")] raises no ValueError.
Parses(text) == \A k \in 1..Len(text) : text[k] # BadToken
\* The list it builds then.
ParseFloats(text) == [k \in 1..Len(text) |-> text[k][1]]

\* except ValueError: "Failed to parse kill_times or beat_drops."  kill_times
\* is assigned when its text parsed and the beat text did not.
MainParseError ==
  /\ pc = "main"
  /\ \E n \in 1..MaxClips, kt \in Texts(KillTimes), bt \in Texts(BeatTimes) :
       /\ ~Parses(kt) \/ ~Parses(bt)
       /\ clips_uploaded' = n
       /\ kill_times' = IF Parses(kt) THEN ParseFloats(kt) ELSE kill_times
  /\ song_path' = "file"
  /\ pc' = "returned"
  /\ ui' = "error"
  /\ UNCHANGED <<entry, clips_info, beat_drops>>
  /\ UNCHANGED planVars

\* "Number of kill times must match the number of clips."
MainKillMismatch ==
  /\ pc = "main"
  /\ \E n \in 1..MaxClips, kt \in Texts(KillTimes), bt \in Texts(BeatTimes) :
       /\ Parses(kt) /\ Parses(bt)
       /\ Len(ParseFloats(kt)) # n
       /\ clips_uploaded' = n
       /\ kill_times' = ParseFloats(kt)
       /\ beat_drops' = ParseFloats(bt)
  /\ song_path' = "file"
  /\ pc' = "returned"
  /\ ui' = "warning"
  /\ UNCHANGED <<entry, clips_info>>
  /\ UNCHANGED planVars

\* "Number of beat drops must match the number of clips."
MainBeatMismatch ==
  /\ pc = "main"
  /\ \E n \in 1..MaxClips, kt \in Texts(KillTimes), bt \in Texts(BeatTimes) :
       /\ Parses(kt) /\ Parses(bt)
       /\ Len(ParseFloats(kt)) = n
       /\ Len(ParseFloats(bt)) # n
       /\ clips_uploaded' = n
       /\ kill_times' = ParseFloats(kt)
       /\ beat_drops' = ParseFloats(bt)
  /\ song_path' = "file"
  /\ pc' = "returned"
  /\ ui' = "warning"
  /\ UNCHANGED <<entry, clips_info>>
  /\ UNCHANGED planVars

\* All checks pass: clips_info is built and generate_montage is entered.
MainGenerate ==
  /\ pc = "main"
  /\ \E n \in 1..MaxClips, kt \in Texts(KillTimes), bt \in Texts(BeatTimes) :
       /\ Parses(kt) /\ Parses(bt)
       /\ Len(ParseFloats(kt)) = n
       /\ Len(ParseFloats(bt)) = n
       /\ clips_uploaded' = n
       /\ kill_times' = ParseFloats(kt)
       /\ beat_drops' = ParseFloats(bt)
       /\ clips_info' = ParseFloats(kt)
  /\ song_path' = "file"
  /\ pc' = "loop"
  /\ UNCHANGED <<entry, ui>>
  /\ UNCHANGED planVars

\* except Exception as e: st.error(...)
MainCatch ==
  /\ entry = "main"
  /\ pc = "raised"
  /\ pc' = "returned"
  /\ ui' = "error"
  /\ UNCHANGED <<entry, song_path, clips_uploaded, kill_times, clips_info,
                 beat_drops>>
  /\ UNCHANGED planVars

\* st.success(...)
MainSuccess ==
  /\ entry = "main"
  /\ pc = "done"
  /\ pc' = "returned"
  /\ ui' = "success"
  /\ UNCHANGED <<entry, song_path, clips_uploaded, kill_times, clips_info,
                 beat_drops>>
  /\ UNCHANGED planVars

\* -------------------------------------------------------- generate_montage
inputVars == <<entry, ui, song_path, clips_uploaded, kill_times, clips_info,
               beat_drops>>

\* beat_drops[i] with i past the end of beat_drops.
LoopIndexError ==
  /\ pc = "loop"
  /\ i < Len(clips_info)
  /\ i >= Len(beat_drops)
  /\ pc' = "raised"
  /\ exc' = "IndexError"
  /\ UNCHANGED <<i, durations, previous_kill_final_time, placed_clips,
                 audio_duration, final_duration>>
  /\ UNCHANGED inputVars

\* previous_kill_final_time + 1 while it is still None.
LoopTypeError ==
  /\ pc = "loop"
  /\ i < Len(clips_info)
  /\ i < Len(beat_drops)
  /\ i # 0
  /\ previous_kill_final_time = None
  /\ pc' = "raised"
  /\ exc' = "TypeError"
  /\ UNCHANGED <<i, durations, previous_kill_final_time, placed_clips,
                 audio_duration, final_duration>>
  /\ UNCHANGED inputVars

\* The clamped window of clip i, given the duration of the loaded file.
WindowStart(duration) ==
  Clamp(LocalStart(i, clips_info[i + 1], beat_drops[i + 1],
                   IF i = 0 THEN Zero ELSE Val(previous_kill_final_time)),
        duration)
WindowEnd(duration) == Clamp(LocalEnd(clips_info[i + 1]), duration)

LoopReady ==
  /\ pc = "loop"
  /\ i < Len(clips_info)
  /\ i < Len(beat_drops)
  /\ i = 0 \/ previous_kill_final_time # None

\* One iteration that ends in `continue`.
LoopSkip ==
  /\ LoopReady
  /\ \E d \in ClipDurations :
       /\ Le(WindowEnd(d), WindowStart(d))
       /\ durations' = Append(durations, d)
  /\ previous_kill_final_time' =
       PreviousAfterSkip(previous_kill_final_time, beat_drops[i + 1])
  /\ i' = i + 1
  /\ UNCHANGED <<pc, placed_clips, audio_duration, final_duration, exc>>
  /\ UNCHANGED inputVars

\* One iteration that places the subclip.
LoopPlace ==
  /\ LoopReady
  /\ \E d \in ClipDurations :
       /\ Lt(WindowStart(d), WindowEnd(d))
       /\ durations' = Append(durations, d)
       /\ placed_clips' = Append(placed_clips,
            [index |-> i,
             local_start |-> WindowStart(d),
             local_end |-> WindowEnd(d),
             time_offset |-> TimeOffset(clips_info[i + 1], WindowStart(d),
                                        beat_drops[i + 1])])
  /\ previous_kill_final_time' =
       PreviousAfterPlace(previous_kill_final_time, beat_drops[i + 1])
  /\ i' = i + 1
  /\ UNCHANGED <<pc, audio_duration, final_duration, exc>>
  /\ UNCHANGED inputVars

\* After the loop, with no subclip placed: CompositeVideoClip([]) cannot be
\* built (it reads clips[0]).
CompositeEmpty ==
  /\ pc = "loop"
  /\ i = Len(clips_info)
  /\ placed_clips = <<>>
  /\ pc' = "raised"
  /\ exc' = "CompositeError"
  /\ UNCHANGED <<i, durations, previous_kill_final_time, placed_clips,
                 audio_duration, final_duration>>
  /\ UNCHANGED inputVars

\* After the loop: composite, stretch to the audio, export.
Composite ==
  /\ pc = "loop"
  /\ i = Len(clips_info)
  /\ placed_clips # <<>>
  /\ \E a \in AudioDurations :
       /\ audio_duration' = Some(a)
       /\ final_duration' = Some(FinalDuration(placed_clips, a))
  /\ pc' = "done"
  /\ UNCHANGED <<i, durations, previous_kill_final_time, placed_clips, exc>>
  /\ UNCHANGED inputVars

Next ==
  \/ MainNoSong
  \/ MainNoClips
  \/ MainParseError
  \/ MainKillMismatch
  \/ MainBeatMismatch
  \/ MainGenerate
  \/ MainCatch
  \/ MainSuccess
  \/ LoopIndexError
  \/ LoopTypeError
  \/ LoopSkip
  \/ LoopPlace
  \/ CompositeEmpty
  \/ Composite

Spec == Init /\ [][Next]_vars

\* ------------------------------------------------------------ claim helpers
Placed == {placed_clips[k] : k \in 1..Len(placed_clips)}
KillOf(c) == clips_info[c.index + 1]
BeatOf(c) == beat_drops[c.index + 1]
DurOf(c) == durations[c.index + 1]

\* Clips whose iteration has completed: indices 0 .. i-1.
Processed == 0..(i - 1)

\* The beat of the last clip placed before clip j (0 when there is none, where
\* it is read only for j = 0, which ignores it).
PreviousBefore(j) ==
  LET before == {c \in Placed : c.index < j}
  IN  IF before = {} THEN Zero
      ELSE BeatOf(CHOOSE c \in before : \A o \in before : o.index <= c.index)

\* |a|
Abs(a) == IF a[1] < 0 THEN Neg(a) ELSE a
\* The largest magnitude among the kill times and beat drops of the run.
Scale ==
  LET mags == {Abs(clips_info[k]) : k \in 1..Len(clips_info)}
                \cup {Abs(beat_drops[k]) : k \in 1..Len(beat_drops)}
                \cup {Zero}
  IN  CHOOSE m \in mags : \A o \in mags : Le(o, m)
\* What the roundings of one iteration can add up to: 2^-46 * (1 + Scale)
\* seconds, rounded down to a multiple of 2^-56.  Each + and - is off by at
\* most 2^-53 of its result, no result exceeds 9 * Scale + 3 in magnitude,
\* and at most ten of them separate two of the quantities compared below.
Tol == <<0, 2^10 + Scale[1] \div 2^16>>
\* |a - b| <= tol, the difference taken exactly.
Near(a, b, tol) == Le(Abs(ExactAdd(a, Neg(b))), tol)
\* a >= b - tol, the difference taken exactly.
AtLeastNear(a, b, tol) == Le(Neg(tol), ExactAdd(a, Neg(b)))

\* The kill of a placed clip on the final timeline, as the program's
\* arithmetic gives it: time_offset + (kill_time - local_start).
KillOnTimeline(c) == FAdd(c.time_offset, FSub(KillOf(c), c.local_start))

\* ------------------------------------------------------------------ claims
\* Machine epsilon (2^-52) times m >= 0, rounded down to a multiple of 2^-56.
EpsTimes(m) == <<0, m[1] \div 2^22>>

\* C1: every placed clip has its kill on its beat,
\* time_offset + (kill_time - local_start) = beat_drops[index], with the
\* clamped local_start and whether or not the window was clamped; "exact, no
\* tolerance beyond floating-point epsilon": the two sides differ by at most
\* machine epsilon times the larger of |time_offset| and the left side.
C1_Alignment ==
  \A c \in Placed :
    Near(KillOnTimeline(c), BeatOf(c),
         EpsTimes(Max(Abs(c.time_offset), Abs(KillOnTimeline(c)))))

\* A placed clip, not the first, whose solved local_start was negative and
\* was clamped to 0, one whose local_end was clamped to the duration, and one
\* whose kill is off its beat by a rounding error.
C1_Witness ==
  /\ \E c \in Placed :
       /\ c.index > 0
       /\ Lt(LocalStart(c.index, KillOf(c), BeatOf(c),
                        PreviousBefore(c.index)), Zero)
       /\ c.local_start = Zero
  /\ \E c \in Placed : Lt(c.local_end, LocalEnd(KillOf(c)))
  /\ \E c \in Placed : KillOnTimeline(c) # BeatOf(c)

\* C2 as stated: after clip index i-1 has been processed, placed or skipped,
\* previous_kill_final_time is beat_drops of that clip.
C2_AdvanceAlways ==
  (pc \in {"loop", "done"} /\ i > 0 /\ i <= Len(beat_drops))
    => previous_kill_final_time = Some(beat_drops[i])

\* C3: every placed window satisfies 0 <= local_start < local_end <= duration.
C3_Bounds ==
  \A c \in Placed :
    /\ Le(Zero, c.local_start)
    /\ Lt(c.local_start, c.local_end)
    /\ Le(c.local_end, DurOf(c))

\* A placed clip whose kill_time + 1 lay past the end of the file, one whose
\* kill_time itself lies past the end of the file, and one whose window is a
\* sliver left by a rounding error.
C3_Witness ==
  /\ \E c \in Placed :
       Lt(DurOf(c), LocalEnd(KillOf(c))) /\ c.local_end = DurOf(c)
  /\ \E c \in Placed : Lt(DurOf(c), KillOf(c))
  /\ \E c \in Placed : Lt(FSub(c.local_end, c.local_start), Tol)

\* C4 as stated: with clips and beat drops of equal, non-zero length the loop
\* never raises.
C4_LoopNeverRaises ==
  (Len(clips_info) > 0 /\ Len(clips_info) = Len(beat_drops))
    => exc \notin {"TypeError", "IndexError"}

\* C5 as stated, read up to rounding: a placed clip i > 0 whose local_start
\* solved from beat_drops[i-1] lies inside the file starts one second after
\* beat_drops[i-1] (within Tol).
C5_StartsAfterPreviousBeat ==
  \A c \in Placed :
    c.index > 0 =>
      LET nominal == FAdd(beat_drops[c.index], One)
          raw == FSub(KillOf(c), FSub(BeatOf(c), nominal))
      IN  (Le(Zero, raw) /\ Le(raw, DurOf(c)))
            => Near(c.time_offset, nominal, Tol)

\* C6 as stated: when the number of beat drops differs from the number of
\* clips, or there is no clip, nothing is planned.
NumClips == IF entry = "main" THEN clips_uploaded ELSE Len(clips_info)
C6_MismatchPlansNothing ==
  (NumClips = 0 \/ Len(beat_drops) # NumClips)
    => (placed_clips = <<>> /\ pc # "done")

\* C7 as stated: the final duration is the larger of the audio duration and
\* the latest end of a placed clip; it is the audio duration when every clip
\* ends by then, and the end of the last placed clip when that lies past the
\* audio.
C7_TotalDurationLast ==
  final_duration # None =>
    LET total == Val(final_duration)
        audio == Val(audio_duration)
        ends == [k \in 1..Len(placed_clips) |-> ClipEnd(placed_clips[k])]
        last == ends[Len(placed_clips)]
    IN  /\ \A k \in 1..Len(placed_clips) : Le(ends[k], total)
        /\ Le(audio, total)
        /\ (\A k \in 1..Len(placed_clips) : Le(ends[k], audio)) => total = audio
        /\ Lt(audio, last) => total = last

\* C7, amended: the final duration is the larger of the audio duration and
\* the latest end of a placed clip; it is the audio duration when every clip
\* ends by then; when the last placed clip ends past the audio it is the end
\* of some placed clip, no earlier than the end of the last placed clip and
\* at most a rounding error (Tol) later.
C7_TotalDuration ==
  final_duration # None =>
    LET total == Val(final_duration)
        audio == Val(audio_duration)
        ends == [k \in 1..Len(placed_clips) |-> ClipEnd(placed_clips[k])]
        last == ends[Len(placed_clips)]
    IN  /\ \A k \in 1..Len(placed_clips) : Le(ends[k], total)
        /\ Le(audio, total)
        /\ total = audio \/ \E k \in 1..Len(placed_clips) : total = ends[k]
        /\ (\A k \in 1..Len(placed_clips) : Le(ends[k], audio)) => total = audio
        /\ Lt(audio, last) => (Le(last, total) /\ Near(total, last, Tol))

\* A finished run with two placed clips, the last ending past the audio, where
\* the final duration is the end of the first one, a rounding error later.
C7_Witness ==
  /\ final_duration # None
  /\ Len(placed_clips) >= 2
  /\ Lt(Val(audio_duration), ClipEnd(placed_clips[Len(placed_clips)]))
  /\ Val(final_duration) = ClipEnd(placed_clips[1])
  /\ Val(final_duration) # ClipEnd(placed_clips[Len(placed_clips)])

\* C8 as stated: for a clip with duration > 0 and 0 <= kill_time <= duration
\* the kill lies inside the placed window.
C8_KillInsideWindow ==
  \A c \in Placed :
    (Lt(Zero, DurOf(c)) /\ Le(Zero, KillOf(c)) /\ Le(KillOf(c), DurOf(c)))
      => (Le(c.local_start, KillOf(c)) /\ Le(KillOf(c), c.local_end))

\* C9 as stated: a clip is in the plan exactly when its clamped window has
\* positive length, the plan keeps the input order, and a skipped clip never
\* ends the run: the clips after it are still processed.
C9_SkipIsFilter ==
  /\ \A k \in 1..(Len(placed_clips) - 1) :
       placed_clips[k].index < placed_clips[k + 1].index
  /\ \A j \in Processed :
       (\E c \in Placed : c.index = j)
         <=> Lt(Clamp(LocalStart(j, clips_info[j + 1], beat_drops[j + 1],
                                 PreviousBefore(j)), durations[j + 1]),
                Clamp(LocalEnd(clips_info[j + 1]), durations[j + 1]))
  /\ exc # "TypeError"

\* C10 as stated: consecutive placed clips do not overlap on the final
\* timeline, and their start times increase strictly.
C10_NoOverlapExact ==
  \A k \in 1..(Len(placed_clips) - 1) :
    /\ Le(ClipEnd(placed_clips[k]), placed_clips[k + 1].time_offset)
    /\ Lt(placed_clips[k].time_offset, placed_clips[k + 1].time_offset)

\* C10, amended: consecutive placed clips overlap on the final timeline by at
\* most a rounding error (Tol), and the plan keeps the input order; start
\* times need not increase strictly.
C10_NoOverlap ==
  LET tol == Tol
  IN  \A k \in 1..(Len(placed_clips) - 1) :
        /\ AtLeastNear(placed_clips[k + 1].time_offset,
                       ClipEnd(placed_clips[k]), tol)
        /\ placed_clips[k].index < placed_clips[k + 1].index

\* Two placed clips of which the later starts before the earlier ends, by a
\* rounding error, the later one a sliver kept because its window came out
\* a rounding error longer than nothing.
C10_Witness ==
  \E k \in 1..(Len(placed_clips) - 1) :
    /\ Lt(placed_clips[k + 1].time_offset, ClipEnd(placed_clips[k]))
    /\ Lt(FSub(placed_clips[k + 1].local_end, placed_clips[k + 1].local_start),
          Tol)

====
